---- MODULE Spec2Model ----
(***************************************************************************)
(* NoDrift: a single-domain, concurrency-bounded web crawler.              *)
(*                                                                         *)
(* The module models crawler/crawler.py (class Crawler), app.py (class     *)
(* WebCrawler and the endpoints start_crawl, crawl_status, stop_crawl and  *)
(* download_log) and crawler/utils.py (URL helpers, seed validation and    *)
(* the accessibility probe) as one state machine.                          *)
(*                                                                         *)
(* A URL string is represented by the components urlparse gives for it:    *)
(* a record [scheme, netloc, path, query, fragment], with the path a       *)
(* sequence of one-character strings, so that rstrip('/') and Python's     *)
(* string order are computed and not assumed.                              *)
(***************************************************************************)
EXTENDS Integers, Sequences, FiniteSets, TLC

VARIABLES
    kind,            \* "Crawler" (crawler.py) or "WebCrawler" (app.py)
    max_concurrent,  \* constructor argument, the semaphore's initial value
    enable_logging,  \* constructor argument: self.logger is not None
    pc,              \* position of the start() coroutine
    to_visit,        \* Crawler.to_visit (deque)
    queue,           \* the local deque of WebCrawler.start
    visited,         \* Crawler.visited (set)
    tasks,           \* the list `tasks` of start()
    tstate,          \* per URL: position of its fetch_and_process coroutine
    semaphore,       \* asyncio.Semaphore._value
    pages_crawled,   \* Crawler.pages_crawled
    error_count,     \* Crawler.error_count
    session,         \* Crawler.session: "none", "open", "closed"
    status,          \* WebCrawler.status
    crawl_sessions,  \* the registry entry of the session (app.py)
    added,           \* history: per URL, number of visited.add calls
    dispatched,      \* history: per URL, number of fetch_and_process calls
    discovered,      \* history: links returned by parse_links so far
    summaries,       \* history: final states given to log_summary, in order
    outcome,         \* history: how start() ended
    last             \* history: the step just taken, its inputs and events

vars == <<kind, max_concurrent, enable_logging, pc, to_visit, queue, visited,
          tasks, tstate, semaphore, pages_crawled, error_count, session,
          status, crawl_sessions, added, dispatched, discovered, summaries,
          outcome, last>>

----------------------------------------------------------------------------
(* Bounds of the model.                                                    *)

\* largest max_concurrent given to the constructor
MaxConcurrent == 2

\* largest number of anchors on one page
MaxAnchors == 2

(* Program constants.                                                      *)

\* app.py: `if len(tasks) >= 5 or not queue`
BatchSize == 5

\* crawler.py: `if response.status >= 400`
ErrorStatusFloor == 400

\* app.py: `if response.status != 200`
OkStatus == 200

----------------------------------------------------------------------------
(* URLs.                                                                   *)

Url(s, n, p, q, f) ==
    [scheme |-> s, netloc |-> n, path |-> p, query |-> q, fragment |-> f]

\* str.rstrip('/') on a path
RECURSIVE rstrip(_)
rstrip(p) ==
    IF p # <<>> /\ p[Len(p)] = "/" THEN rstrip(SubSeq(p, 1, Len(p) - 1)) ELSE p

\* an unterminated "[" in the netloc makes urlsplit raise ValueError
UrlparseRaises(u) == u.netloc = "[bad"

\* urllib.parse.uses_params: the schemes for which urlparse splits ";params"
\* off the path
uses_params == {"", "ftp", "http", "https", "tel"}

\* p cut at each ";" of its last segment, scanning from the end to i
RECURSIVE BeforeParams(_, _)
BeforeParams(p, i) ==
    IF i = 0 THEN p
    ELSE IF p[i] = "/" THEN p
    ELSE IF p[i] = ";" /\ \A j \in i + 1..Len(p) : p[j] # "/"
         THEN BeforeParams(SubSeq(p, 1, i - 1), i - 1)
    ELSE BeforeParams(p, i - 1)

\* urllib.parse._splitparams: the path without the parameters of its last
\* segment (the text from the first ";" after the last "/")
splitparams(p) == BeforeParams(p, Len(p))

\* utils.normalize_url: the string scheme + "://" + netloc + path.rstrip('/')
\* of the components urlparse gives, written as the components urlparse
\* gives for that string: when the URL has no netloc and a path that does
\* not begin with "/" (mailto:example.com), the first token of the path
\* stands after "://" and is read as the netloc
normalize_url(u) ==
    LET path == rstrip(IF u.scheme \in uses_params THEN splitparams(u.path)
                       ELSE u.path)
    IN IF u.netloc = "" /\ path # <<>> /\ path[1] # "/"
       THEN Url(u.scheme, path[1], Tail(path), "", "")
       ELSE Url(u.scheme, u.netloc, path, "", "")

\* mutant: the schemes are compared as well
is_same_domain_WithScheme(b, l) ==
    IF UrlparseRaises(b) \/ UrlparseRaises(l) THEN FALSE
    ELSE b.netloc = l.netloc /\ b.scheme = l.scheme

\* utils.is_same_domain: netloc equality, False when urlparse raises
is_same_domain(b, l) ==
    IF UrlparseRaises(b) \/ UrlparseRaises(l) THEN FALSE ELSE b.netloc = l.netloc

\* the directory part of a base path, for merging a relative reference
RECURSIVE DirOf(_)
DirOf(p) ==
    IF p = <<>> THEN <<"/">>
    ELSE IF p[Len(p)] = "/" THEN p
    ELSE DirOf(SubSeq(p, 1, Len(p) - 1))

\* utils.get_absolute_url: urljoin(base, link), without dot segments
get_absolute_url(b, l) ==
    IF l.scheme # "" /\ l.scheme # b.scheme THEN l
    ELSE IF l.netloc # "" THEN Url(b.scheme, l.netloc, l.path, l.query, l.fragment)
    ELSE IF l.path = <<>> THEN
        Url(b.scheme, b.netloc, b.path,
            IF l.query # "" THEN l.query ELSE b.query, l.fragment)
    ELSE IF l.path[1] = "/" THEN
        Url(b.scheme, b.netloc, l.path, l.query, l.fragment)
    ELSE Url(b.scheme, b.netloc, DirOf(b.path) \o l.path, l.query, l.fragment)

\* the seed after validate_and_complete_url and normalize_url (Crawler.__init__)
SeedInput == Url("https", "example.com", <<"/">>, "", "")
base_url == normalize_url(SeedInput)

\* the href attributes a page of the site may carry
Hrefs ==
    { Url("", "", <<"/", "a">>, "", ""),
      Url("https", "example.com", <<"/", "b", "/">>, "", ""),
      Url("", "", <<"/", "c">>, "q=1", ""),
      Url("https", "other.com", <<"/", "c">>, "", ""),
      Url("", "", <<>>, "", "frag"),
      Url("http", "[bad", <<>>, "", "") }

RECURSIVE SeqsUpTo(_, _)
SeqsUpTo(S, n) ==
    IF n = 0 THEN {<<>>}
    ELSE LET shorter == SeqsUpTo(S, n - 1)
         IN shorter \cup {Append(s, x) : s \in {t \in shorter : Len(t) = n - 1}, x \in S}

\* a page body: the href attributes of its anchors, in document order
Pages == SeqsUpTo(Hrefs, MaxAnchors)

\* code points of the characters that occur in paths
CharRank(c) ==
    CASE c = "/" -> 47
      [] c = "a" -> 97
      [] c = "b" -> 98
      [] c = "c" -> 99
      [] c = ";" -> 59
      [] c = "p" -> 112

RECURSIVE PathLess(_, _)
PathLess(p, r) ==
    IF p = <<>> THEN r # <<>>
    ELSE IF r = <<>> THEN FALSE
    ELSE IF p[1] = r[1] THEN PathLess(Tail(p), Tail(r))
    ELSE CharRank(p[1]) < CharRank(r[1])

\* Python's order on the strings scheme://netloc/path, for canonical URLs
PrefixRank(u) ==
    CASE u.scheme = "http" /\ u.netloc = "example.com" -> 1
      [] u.scheme = "http" /\ u.netloc = "other.com" -> 2
      [] u.scheme = "https" /\ u.netloc = "example.com" -> 3
      [] u.scheme = "https" /\ u.netloc = "other.com" -> 4
      [] u.scheme = "ftp" -> 0
      [] u.scheme = "mailto" -> 5
      [] OTHER -> 6

UrlLess(x, y) ==
    IF PrefixRank(x) = PrefixRank(y) THEN PathLess(x.path, y.path)
    ELSE PrefixRank(x) < PrefixRank(y)

\* mutant: the links in descending order
RECURSIVE sorted_Descending(_)
sorted_Descending(S) ==
    IF S = {} THEN <<>>
    ELSE LET m == CHOOSE x \in S : \A y \in S \ {x} : UrlLess(y, x)
         IN <<m>> \o sorted_Descending(S \ {m})

\* sorted(links)
RECURSIVE sorted(_)
sorted(S) ==
    IF S = {} THEN <<>>
    ELSE LET m == CHOOSE x \in S : \A y \in S \ {x} : UrlLess(x, y)
         IN <<m>> \o sorted(S \ {m})

\* an anchor that has no href attribute
NoHref == Url("", "", <<>>, "", "<a> without href")

\* Crawler.parse_links: the result, or the ValueError of a malformed href;
\* `soup.find_all('a', href=True)` passes over the anchors without href
parse_links(base, html) ==
    LET anchors == SelectSeq(html, LAMBDA a : a # NoHref)
        joined(i) == get_absolute_url(base, anchors[i])
    IN IF \E i \in 1..Len(anchors) : UrlparseRaises(anchors[i])
       THEN [raised |-> TRUE, links |-> {}]
       ELSE [raised |-> FALSE,
             links |-> { normalize_url(joined(i)) : i \in
                           { j \in 1..Len(anchors) :
                               is_same_domain(base_url, normalize_url(joined(j))) } }]

\* every canonical URL a crawl of the site can store
CanonicalUrls ==
    {base_url} \cup
    UNION { parse_links(base_url, <<h>>).links : h \in Hrefs }

----------------------------------------------------------------------------
(* The seed given to start_crawl and to Crawler(...).                      *)

\* A seed as the caller gives it: absent (no 'url' key, None) or a string,
\* written as its surrounding whitespace, the scheme before "://" and the
\* rest: the text up to the first "/" as one token, then the characters of
\* the path.
Seed(present, pad, scheme, rest) ==
    [present |-> present, pad |-> pad, scheme |-> scheme, rest |-> rest]

\* the seeds a caller may give
Seeds ==
    { Seed(FALSE, 0, "", <<>>),                            \* missing
      Seed(TRUE, 0, "", <<>>),                             \* ""
      Seed(TRUE, 3, "", <<>>),                             \* "   "
      Seed(TRUE, 0, "", <<"not a url">>),
      Seed(TRUE, 0, "", <<"localhost">>),
      Seed(TRUE, 0, "http", <<>>),                         \* "http://"
      Seed(TRUE, 0, "", <<"example.com">>),
      Seed(TRUE, 0, "https", <<"example.com", "/">>),
      Seed(TRUE, 2, "https", <<"example.com", "/">>) }     \* " https://example.com/ "

\* the seeds given to validate_and_complete_url on its own: the seeds above,
\* hosts with "www." and with a port, other schemes, and a path with a query
\* and a fragment (each a token of the rest)
UtilSeeds ==
    Seeds \cup
    { Seed(TRUE, 0, "", <<"www.example.com">>),
      Seed(TRUE, 0, "", <<"www.www.example.com">>),
      Seed(TRUE, 0, "https", <<"www.www.example.com">>),
      Seed(TRUE, 0, "", <<"example.com:8080">>),
      Seed(TRUE, 0, "https", <<"example.com:8080">>),
      Seed(TRUE, 0, "http", <<"example.com">>),
      Seed(TRUE, 0, "ftp", <<"example.com">>),
      Seed(TRUE, 0, "", <<"example.com", "/", "a", "?q=1", "#frag">>),
      Seed(TRUE, 0, "https", <<"example.com", "/", "a", "?q=1", "#frag">>) }

\* the tokens of a seed that open its query and its fragment
QueryTokens == {"?q=1"}

FragmentTokens == {"#frag"}

\* urlparse(url).scheme of a string without "://": the text before the first
\* ":" when it is made of scheme characters (letters, digits, "+", "-", "."),
\* else the empty string
BeforeColon(token) ==
    CASE token = "example.com:8080" -> "example.com"
      [] OTHER -> ""

\* the labels of a host, split at the dots
Labels(netloc) ==
    CASE netloc = "example.com" -> <<"example", "com">>
      [] netloc = "other.com" -> <<"other", "com">>
      [] netloc = "localhost" -> <<"localhost">>
      [] netloc = "www.example.com" -> <<"www", "example", "com">>
      [] netloc = "www.www.example.com" -> <<"www", "www", "example", "com">>
      [] netloc = "example.com:8080" -> <<"example", "com:8080">>
      [] OTHER -> <<netloc>>

\* domain_pattern.match(netloc): a label of letters, digits and inner
\* hyphens, a dot, and two or more letters; match() is not anchored at the
\* end, so what follows those letters (more labels, a port) is not examined
domain_pattern(netloc) ==
    LET l == Labels(netloc)
    IN /\ Len(l) >= 2
       /\ l[1] \in {"example", "other", "localhost", "www"}
       /\ l[2] \in {"com", "www", "example", "com:8080"}

\* mutant: every seed that is present passes
validate_and_complete_url_Unchecked(seed) ==
    [raised |-> ~seed.present, text |-> "URL cannot be empty",
     url |-> Url(IF seed.scheme = "" THEN "https" ELSE seed.scheme,
                 "example.com", <<>>, "", ""),
     completed |-> seed]

\* utils.validate_and_complete_url: the completed URL, or the ValueError;
\* `completed` is the string returned, written as a seed
validate_and_complete_url(seed) ==
    LET found == IF seed.scheme # "" THEN seed.scheme
                 ELSE IF seed.rest # <<>> THEN BeforeColon(seed.rest[1])
                 ELSE ""
        scheme == IF found = "" THEN "https" ELSE found
        \* "://" stands before the rest: given, or prepended with "https"
        authority == seed.scheme # "" \/ found = ""
        netloc == IF authority /\ seed.rest # <<>> /\ seed.rest[1] # "/"
                  THEN seed.rest[1] ELSE ""
        after == IF netloc # "" THEN Tail(seed.rest) ELSE seed.rest
        path == SelectSeq(after, LAMBDA t : t \notin QueryTokens \cup FragmentTokens)
        query == IF \E i \in 1..Len(after) : after[i] \in QueryTokens
                 THEN "q=1" ELSE ""
        fragment == IF \E i \in 1..Len(after) : after[i] \in FragmentTokens
                    THEN "frag" ELSE ""
        none == Url("", "", <<>>, "", "")
        completed == Seed(TRUE, 0, IF found = "" THEN "https" ELSE seed.scheme,
                          seed.rest)
    IN IF ~seed.present \/ (seed.scheme = "" /\ seed.rest = <<>>)
       THEN [raised |-> TRUE, text |-> "URL cannot be empty", url |-> none,
             completed |-> seed]
       ELSE IF netloc = ""
       THEN [raised |-> TRUE, text |-> "Invalid URL format", url |-> none,
             completed |-> seed]
       ELSE IF ~domain_pattern(netloc)
       THEN [raised |-> TRUE, text |-> "Invalid domain format", url |-> none,
             completed |-> seed]
       ELSE [raised |-> FALSE, text |-> "",
             url |-> Url(scheme, netloc, path, query, fragment),
             completed |-> completed]

----------------------------------------------------------------------------
(* The accessibility probe (utils.verify_url_accessibility).               *)

\* statuses a HEAD request of the seed may end with
ProbeStatuses == {200, 204, 301, 302, 303, 307, 308, 404, 500}

\* what the HEAD request does: a response, or one of the exceptions
HeadOutcomes ==
    [kind : {"response"}, status : ProbeStatuses] \cup
    [kind : {"TimeoutError", "ClientConnectorError", "InvalidURL", "Exception"},
     status : {0}]

RedirectStatuses == {301, 302, 303, 307, 308}

\* mutant: the probe accepts whatever the HEAD request did
verify_url_accessibility_Lenient(h) ==
    [accessible |-> TRUE, text |-> "URL is accessible", code |-> 0,
     raised |-> FALSE]

\* mutant: the probe accepts every 2xx status and no redirect
verify_url_accessibility_Only2xx(h) ==
    IF h.kind = "response" /\ h.status >= 200 /\ h.status < 300
    THEN [accessible |-> TRUE, text |-> "URL is accessible", code |-> 0,
          raised |-> FALSE]
    ELSE [accessible |-> FALSE, text |-> "Unexpected status code: ",
          code |-> h.status, raised |-> FALSE]

\* (accessible, message); `code` is the status interpolated into the message
\* (0: none) and `raised` whether an exception leaves the function
verify_url_accessibility(h) ==
    IF h.kind = "response" THEN
        IF h.status = 200 THEN
            [accessible |-> TRUE, text |-> "URL is accessible", code |-> 0,
             raised |-> FALSE]
        ELSE IF h.status \in RedirectStatuses THEN
            [accessible |-> TRUE, text |-> "URL redirects (Status: )",
             code |-> h.status, raised |-> FALSE]
        ELSE
            [accessible |-> FALSE, text |-> "Unexpected status code: ",
             code |-> h.status, raised |-> FALSE]
    ELSE IF h.kind = "TimeoutError" THEN
        [accessible |-> FALSE,
         text |-> "Request timed out - server may be unreachable", code |-> 0,
         raised |-> FALSE]
    ELSE IF h.kind = "ClientConnectorError" THEN
        [accessible |-> FALSE,
         text |-> "Cannot connect to server - check if domain exists",
         code |-> 0, raised |-> FALSE]
    ELSE IF h.kind = "InvalidURL" THEN
        [accessible |-> FALSE, text |-> "Invalid URL format", code |-> 0,
         raised |-> FALSE]
    ELSE
        [accessible |-> FALSE, text |-> "Connection error: ", code |-> 0,
         raised |-> FALSE]

----------------------------------------------------------------------------
(* Responses of the site to GET.                                           *)

Statuses == {200, 301, 404}

ContentTypes == {"text/html", "application/json"}

\* mutant: every content type passes for HTML
IsHtml_Any(content_type) == TRUE

\* `'text/html' not in response.content_type`
IsHtml(content_type) == content_type = "text/html"

\* parse_links(u, body) for every body the page at u may have (the bodies
\* are Pages; a response carries the result in place of the body)
ParsedPages == [u \in CanonicalUrls |-> { parse_links(u, b) : b \in Pages }]

Unparsed == [raised |-> FALSE, links |-> {}]

\* session.get raising (transport failure, timeout), or a response; the body
\* is only read of a response that passes both checks of the base class
Responses ==
    [u \in CanonicalUrls |->
        {[exc |-> TRUE, status |-> 0, content_type |-> "", parsed |-> Unparsed]} \cup
        { r \in [exc : {FALSE}, status : Statuses, content_type : ContentTypes,
                 parsed : ParsedPages[u]] :
            (r.status >= ErrorStatusFloor \/ ~IsHtml(r.content_type))
                => r.parsed = Unparsed }]

NoResponse == [exc |-> FALSE, status |-> 0, content_type |-> "", parsed |-> Unparsed]

\* an event given to CrawlerLogger
Event(k, u, d, s) == [kind |-> k, url |-> u, detail |-> d, status |-> s]

\* `if self.logger: self.logger.log_...(...)`
Logged(events) == IF enable_logging THEN events ELSE <<>>

\* the record of a step: operation, URL, input, events emitted, result
Step(op, u, arg, events, ret) ==
    [op |-> op, url |-> u, arg |-> arg, events |-> events, ret |-> ret]

NoSession == [status |-> "none", error |-> "", current_url |-> base_url,
              pages_crawled |-> 0, total_found |-> 0, error_count |-> 0,
              pages |-> 0, log_file |-> FALSE]

----------------------------------------------------------------------------
(* Initial state: before Crawler(seed) or, for the web application, the   *)
(* application loaded with an empty registry, before POST /api/start_crawl.*)

Init ==
    /\ kind \in {"Crawler", "WebCrawler"}
    /\ max_concurrent \in 0..MaxConcurrent
    /\ enable_logging \in (IF kind = "Crawler" THEN BOOLEAN ELSE {TRUE})
    /\ pc = "new"
    /\ to_visit = <<>>
    /\ queue = <<>>
    /\ visited = {}
    /\ tasks = <<>>
    /\ tstate = [u \in CanonicalUrls |-> "none"]
    /\ semaphore = 0
    /\ pages_crawled = 0
    /\ error_count = 0
    /\ session = "none"
    /\ status = "none"
    /\ crawl_sessions = NoSession
    /\ added = [u \in CanonicalUrls |-> 0]
    /\ dispatched = [u \in CanonicalUrls |-> 0]
    /\ discovered = {}
    /\ summaries = <<>>
    /\ outcome = "running"
    /\ last = Step("init", base_url, NoResponse, <<>>, <<>>)

\* Crawler.__init__(base_url, max_concurrent, enable_logging)
Construct(seed) ==
    LET v == validate_and_complete_url(seed)
    IN /\ kind = "Crawler"
       /\ pc = "new"
       /\ IF v.raised
          THEN /\ pc' = "rejected"
               /\ outcome' = "InvalidBaseUrl"
               /\ UNCHANGED <<to_visit, semaphore>>
          ELSE /\ pc' = "probe"
               /\ outcome' = outcome
               /\ to_visit' = <<normalize_url(v.url)>>
               /\ semaphore' = max_concurrent
       /\ last' = Step("construct", base_url, seed, <<>>,
                       [code |-> 0, error |-> v.text])
       /\ UNCHANGED <<kind, max_concurrent, enable_logging, queue, visited,
                      tasks, tstate, pages_crawled, error_count, session,
                      status, crawl_sessions, added, dispatched, discovered,
                      summaries>>

\* `not base_url`: the 'url' key is absent, or its value is the empty string
Falsy(seed) == ~seed.present \/ (seed.pad = 0 /\ seed.scheme = "" /\ seed.rest = <<>>)

\* POST /api/start_crawl: the seed is validated; the session is stored and
\* run_crawler_async starts the thread, which constructs WebCrawler
start_crawl(seed) ==
    LET v == validate_and_complete_url(seed)
    IN /\ kind = "WebCrawler"
       /\ pc = "new"
       /\ IF Falsy(seed) \/ v.raised
          THEN /\ pc' = "rejected"
               /\ last' = Step("start_crawl", base_url, seed, <<>>,
                               [code |-> 400,
                                error |-> IF Falsy(seed) THEN "URL is required"
                                          ELSE v.text])
               /\ UNCHANGED <<to_visit, semaphore, status, crawl_sessions>>
          ELSE /\ pc' = "probe"
               /\ crawl_sessions' =
                    [NoSession EXCEPT !.status = "initializing"]
               /\ status' = "initializing"
               /\ to_visit' = <<normalize_url(v.url)>>
               /\ semaphore' = max_concurrent
               /\ last' = Step("start_crawl", base_url, seed, <<>>,
                               [code |-> 200, error |-> ""])
       /\ UNCHANGED <<kind, max_concurrent, enable_logging, queue, visited,
                      tasks, tstate, pages_crawled, error_count, session,
                      added, dispatched, discovered, summaries, outcome>>

----------------------------------------------------------------------------
(* Crawler.start (crawler.py).                                             *)

\* mutant: the visited check always passes
NotVisited_Unchecked(url, vis) == TRUE

\* `if url not in self.visited`
NotVisited(url, vis) == url \notin vis

\* `len(tasks) < self.semaphore._value`
BelowLimit(ts, value) == Len(ts) < value

\* mutant: the URL is not recorded
visited_add_Skipped(vis, url) == vis

\* `self.visited.add(url)`
visited_add(vis, url) == vis \cup {url}

\* mutant: the URL is taken from the right end, as deque.pop() does
popleft_Pop(tv) == [url |-> tv[Len(tv)], rest |-> SubSeq(tv, 1, Len(tv) - 1)]

\* deque.popleft(): the URL at the head and the deque without it
popleft(tv) == [url |-> Head(tv), rest |-> Tail(tv)]

\* the inner while loop of Crawler.start: dequeue and create tasks; `out` and
\* `skip` collect the URLs dispatched and the URLs discarded as visited
RECURSIVE AddTasks(_, _, _, _, _, _, _)
AddTasks(tv, vis, ts, value, mark, out, skip) ==
    IF tv # <<>> /\ BelowLimit(ts, value) THEN
        LET url == popleft(tv).url
            rest == popleft(tv).rest
        IN IF NotVisited(url, vis)
           THEN AddTasks(rest, visited_add(vis, url), Append(ts, url), value,
                         Append(mark, url), Append(out, url), skip)
           ELSE AddTasks(rest, vis, ts, value, mark, out, Append(skip, url))
    ELSE [to_visit |-> tv, visited |-> vis, tasks |-> ts, marked |-> mark,
          created |-> out, discarded |-> skip]

RECURSIVE CountIn(_, _)
CountIn(u, seq) ==
    IF seq = <<>> THEN 0
    ELSE (IF Head(seq) = u THEN 1 ELSE 0) + CountIn(u, Tail(seq))

\* the probe of Crawler.start: a rejected seed is logged in the try block and,
\* the ValueError raised there being caught by `except Exception`, again in
\* the handler, which raises ValueError to the caller
CrawlerProbe(h) ==
    LET r == verify_url_accessibility(h)
        rejected == Logged(<<Event("invalid_url", base_url, r.text, r.code),
                             Event("summary", base_url, "invalid", 0)>>)
        handler == Logged(<<Event("invalid_url", base_url, r.text, r.code),
                            Event("summary", base_url, "invalid", 0)>>)
    IN /\ kind = "Crawler"
       /\ pc = "probe"
       /\ IF r.accessible /\ ~r.raised
          THEN /\ session' = "open"
               /\ pc' = "loop"
               /\ outcome' = outcome
               /\ summaries' = summaries
               /\ last' = Step("probe", base_url, h, <<>>, r)
          ELSE /\ session' = session
               /\ pc' = "raised"
               /\ outcome' = "ValueError"
               /\ summaries' = summaries \o
                    (IF ~enable_logging THEN <<>>
                     ELSE IF r.raised THEN <<"invalid">>
                     ELSE <<"invalid", "invalid">>)
               /\ last' = Step("probe", base_url, h,
                               IF r.raised THEN handler ELSE rejected \o handler, r)
       /\ UNCHANGED <<kind, max_concurrent, enable_logging, to_visit, queue,
                      visited, tasks, tstate, semaphore, pages_crawled,
                      error_count, status, crawl_sessions, added, dispatched,
                      discovered>>

\* mutant: the loop ends when the frontier is empty, tasks pending or not
LoopCondition_FrontierOnly(tv, ts) == tv # <<>>

\* `while self.to_visit or tasks`
LoopCondition(tv, ts) == tv # <<>> \/ ts # <<>>

\* one pass of `while self.to_visit or tasks` up to the await of asyncio.wait,
\* or the exit of the loop
CrawlerLoop ==
    /\ kind = "Crawler"
    /\ pc = "loop"
    /\ IF ~LoopCondition(to_visit, tasks)
       THEN /\ pc' = "finally"
            /\ last' = Step("exit", base_url, NoResponse, <<>>, <<>>)
            /\ UNCHANGED <<to_visit, visited, tasks, tstate, added, dispatched>>
       ELSE LET r == AddTasks(to_visit, visited, tasks, semaphore, <<>>, <<>>, <<>>)
            IN /\ to_visit' = r.to_visit
               /\ visited' = r.visited
               /\ tasks' = r.tasks
               /\ tstate' = [u \in CanonicalUrls |->
                               IF CountIn(u, r.created) > 0 THEN "created"
                               ELSE tstate[u]]
               /\ added' = [u \in CanonicalUrls |-> added[u] + CountIn(u, r.marked)]
               /\ dispatched' = [u \in CanonicalUrls |->
                                   dispatched[u] + CountIn(u, r.created)]
               /\ pc' = IF r.tasks # <<>> THEN "wait" ELSE "loop"
               /\ last' = Step("dispatch", base_url, NoResponse, <<>>,
                               [created |-> r.created, discarded |-> r.discarded])
    /\ UNCHANGED <<kind, max_concurrent, enable_logging, queue, semaphore,
                   pages_crawled, error_count, session, status, crawl_sessions,
                   discovered, summaries, outcome>>

Finished(u) == tstate[u] \in {"returned", "raised"}

\* asyncio.wait(tasks, return_when=FIRST_COMPLETED) returns; task.result()
\* re-raises the exception of a task that ended with one
CrawlerWait ==
    /\ kind = "Crawler"
    /\ pc = "wait"
    /\ \E i \in 1..Len(tasks) : Finished(tasks[i])
    /\ LET pending == SelectSeq(tasks, LAMBDA u : ~Finished(u))
           failed == \E i \in 1..Len(tasks) : tstate[tasks[i]] = "raised"
       IN IF failed
          THEN /\ pc' = "finally"
               /\ outcome' = "Exception"
               /\ tasks' = tasks
          ELSE /\ pc' = "loop"
               /\ outcome' = outcome
               /\ tasks' = pending
    /\ last' = Step("wait", base_url, NoResponse, <<>>, <<>>)
    /\ UNCHANGED <<kind, max_concurrent, enable_logging, to_visit, queue,
                   visited, tstate, semaphore, pages_crawled, error_count,
                   session, status, crawl_sessions, added, dispatched, discovered,
                   summaries>>

\* mutant: the session is left open
close_session_Skipped(sess) == sess

\* `if self.session: await self.session.close()`
close_session(sess) == IF sess = "open" THEN "closed" ELSE sess

\* the finally block of Crawler.start
CrawlerFinally ==
    /\ kind = "Crawler"
    /\ pc = "finally"
    /\ session' = close_session(session)
    /\ summaries' = summaries \o (IF enable_logging THEN <<"completed">> ELSE <<>>)
    /\ pc' = IF outcome = "Exception" THEN "raised" ELSE "done"
    /\ outcome' = IF outcome = "Exception" THEN outcome ELSE "returned"
    /\ last' = Step("finally", base_url, NoResponse,
                    Logged(<<Event("summary", base_url, "completed", 0)>>), <<>>)
    /\ UNCHANGED <<kind, max_concurrent, enable_logging, to_visit, queue,
                   visited, tasks, tstate, semaphore, pages_crawled,
                   error_count, status, crawl_sessions, added, dispatched, discovered>>

----------------------------------------------------------------------------
(* fetch_and_process.                                                      *)

\* a coroutine of `tasks` runs while start() is suspended in asyncio.wait or
\* asyncio.gather
Scheduled(u) ==
    /\ pc \in {"wait", "gather"}
    /\ \E i \in 1..Len(tasks) : tasks[i] = u

\* mutant: acquire never blocks
CanAcquire_Always(value) == TRUE

\* Semaphore.acquire proceeds when the value is positive
CanAcquire(value) == value > 0

\* mutant: the slot is not given back
Release_Missing(value) == value

\* Semaphore.release at the exit of `async with self.semaphore:`
Release(value) == value + 1

\* `async with self.semaphore:` entered, the GET issued
Acquire(u) ==
    /\ Scheduled(u)
    /\ tstate[u] = "created"
    /\ CanAcquire(semaphore)
    /\ semaphore' = semaphore - 1
    /\ tstate' = [tstate EXCEPT ![u] = "fetching"]
    /\ last' = Step("acquire", u, NoResponse, <<>>, <<>>)
    /\ UNCHANGED <<kind, max_concurrent, enable_logging, pc, to_visit, queue,
                   visited, tasks, pages_crawled, error_count, session, status,
                   crawl_sessions, added, dispatched, discovered, summaries, outcome>>

\* mutant: every link is appended, visited or not
NewLinks_All(links, vis) == sorted(links)

\* `for link in sorted(links): if link not in self.visited: append(link)`
NewLinks(links, vis) == SelectSeq(sorted(links), LAMBDA l : l \notin vis)

\* mutant: the exception leaves the coroutine
ExceptException_Propagates(e) == "raised"

\* `except Exception as e:` of fetch_and_process: the exception is handled,
\* the coroutine returns
ExceptException(e) == "returned"

\* the handler of `except Exception`: error_count += 1, log_error; `counted`
\* is 1 when the exception came after `self.pages_crawled += 1`
Failed(u, counted, e) ==
    [pages |-> counted, errors |-> 1, append |-> <<>>, found |-> {},
     events |-> Logged(<<Event("error", u, "", 0)>>),
     end |-> ExceptException(e)]

\* mutant: a skipped response is counted as an error
Skipped_Counted(u, reason, st) ==
    [pages |-> 0, errors |-> 1, append |-> <<>>, found |-> {},
     events |-> Logged(<<Event("skipped", u, reason, st)>>),
     end |-> "returned"]

\* `self.logger.log_page_skipped(url, reason, response.status); return`
Skipped(u, reason, st) ==
    [pages |-> 0, errors |-> 0, append |-> <<>>, found |-> {},
     events |-> Logged(<<Event("skipped", u, reason, st)>>),
     end |-> "returned"]

\* the page is counted, its links logged and the unvisited ones appended
Crawled(u, st, links, vis) ==
    [pages |-> 1, errors |-> 0, append |-> NewLinks(links, vis),
     found |-> links,
     events |-> Logged(<<Event("crawled", u, "", st)>>),
     end |-> "returned"]

\* Crawler.fetch_and_process from the response on: what it does to the
\* counters, what it logs, what it appends, and how the coroutine ends
\* (r.parsed is what self.parse_links(url, html) gives for the body)
fetch_and_process(u, r, vis) ==
    IF r.exc THEN Failed(u, 0, "get")
    ELSE IF r.status >= ErrorStatusFloor THEN
        Skipped(u, "Non-2xx/3xx status", r.status)
    ELSE IF ~IsHtml(r.content_type) THEN
        Skipped(u, "Non-HTML content", r.status)
    ELSE IF r.parsed.raised THEN Failed(u, 1, "parse_links")
    ELSE Crawled(u, r.status, r.parsed.links, vis)

\* the response (or exception) of the GET arrives; the rest of
\* Crawler.fetch_and_process runs and the semaphore is released
Fetch(u, r) ==
    /\ kind = "Crawler"
    /\ Scheduled(u)
    /\ tstate[u] = "fetching"
    /\ LET f == fetch_and_process(u, r, visited)
       IN /\ pages_crawled' = pages_crawled + f.pages
          /\ error_count' = error_count + f.errors
          /\ to_visit' = to_visit \o f.append
          /\ discovered' = discovered \cup f.found
          /\ tstate' = [tstate EXCEPT ![u] = f.end]
          /\ last' = Step("fetch", u, [r EXCEPT !.parsed = Unparsed], f.events,
                          [found |-> f.found, append |-> f.append])
    /\ semaphore' = Release(semaphore)
    /\ UNCHANGED <<kind, max_concurrent, enable_logging, pc, queue, visited,
                   tasks, session, status, crawl_sessions, added, dispatched,
                   summaries, outcome>>

----------------------------------------------------------------------------
(* WebCrawler (app.py).                                                    *)

\* the probe of WebCrawler.start and the lines up to the loop
WebProbe(h) ==
    LET r == verify_url_accessibility(h)
    IN /\ kind = "WebCrawler"
       /\ pc = "probe"
       /\ IF r.accessible /\ ~r.raised
          THEN /\ status' = "running"
               /\ crawl_sessions' = [crawl_sessions EXCEPT !.status = "running"]
               /\ session' = "open"
               /\ queue' = <<base_url>>
               /\ pc' = "webloop"
               /\ outcome' = outcome
               /\ summaries' = summaries
               /\ last' = Step("probe", base_url, h, <<>>, r)
          ELSE /\ status' = "invalid"
               /\ crawl_sessions' = [crawl_sessions EXCEPT
                                       !.status = "invalid",
                                       !.error = IF r.raised
                                                 THEN "URL verification failed"
                                                 ELSE "Invalid URL"]
               /\ session' = session
               /\ queue' = queue
               /\ pc' = "done"
               /\ outcome' = "returned"
               /\ summaries' = summaries \o Logged(<<"invalid">>)
               /\ last' = Step("probe", base_url, h,
                               Logged(<<Event("invalid_url", base_url, r.text, r.code),
                                        Event("summary", base_url, "invalid", 0)>>),
                               r)
       /\ UNCHANGED <<kind, max_concurrent, enable_logging, to_visit, visited,
                      tasks, tstate, semaphore, pages_crawled, error_count,
                      added, dispatched, discovered>>

\* `len(tasks) >= 5 or not queue`
BatchReady(ts, q) == Len(ts) >= BatchSize \/ q = <<>>

\* one iteration of `while queue and self.status == "running"`, up to the
\* await of asyncio.gather, or the exit of the loop
WebLoop ==
    /\ kind = "WebCrawler"
    /\ pc = "webloop"
    /\ IF queue = <<>> \/ status # "running"
       THEN /\ pc' = "finally"
            /\ last' = Step("exit", base_url, NoResponse, <<>>, <<>>)
            /\ UNCHANGED <<queue, visited, tasks, tstate, added, dispatched,
                           crawl_sessions>>
       ELSE LET url == popleft(queue).url
            IN /\ queue' = popleft(queue).rest
               /\ IF NotVisited(url, visited)
                  THEN /\ visited' = visited_add(visited, url)
                       /\ crawl_sessions' =
                            [crawl_sessions EXCEPT
                               !.current_url = url,
                               !.pages_crawled = pages_crawled,
                               !.total_found = Cardinality(visited')]
                       /\ tasks' = Append(tasks, url)
                       /\ tstate' = [tstate EXCEPT ![url] = "created"]
                       /\ added' = [added EXCEPT ![url] = @ + 1]
                       /\ dispatched' = [dispatched EXCEPT ![url] = @ + 1]
                       /\ pc' = IF BatchReady(tasks', queue') THEN "gather"
                                ELSE "webloop"
                       /\ last' = Step("dispatch", url, NoResponse, <<>>,
                                       [created |-> <<url>>, discarded |-> <<>>])
                  ELSE /\ pc' = "webloop"
                       /\ last' = Step("dispatch", url, NoResponse, <<>>,
                                       [created |-> <<>>, discarded |-> <<url>>])
                       /\ UNCHANGED <<visited, tasks, tstate, added,
                                      dispatched, crawl_sessions>>
    /\ UNCHANGED <<kind, max_concurrent, enable_logging, to_visit, semaphore,
                   pages_crawled, error_count, session, status, discovered,
                   summaries, outcome>>

\* asyncio.gather(*tasks, return_exceptions=True) returns: every coroutine of
\* the batch has ended; `tasks = []`
WebGather ==
    /\ kind = "WebCrawler"
    /\ pc = "gather"
    /\ \A i \in 1..Len(tasks) : Finished(tasks[i])
    /\ tasks' = <<>>
    /\ pc' = "webloop"
    /\ last' = Step("gather", base_url, NoResponse, <<>>, <<>>)
    /\ UNCHANGED <<kind, max_concurrent, enable_logging, to_visit, queue,
                   visited, tstate, semaphore, pages_crawled, error_count,
                   session, status, crawl_sessions, added, dispatched, discovered,
                   summaries, outcome>>

\* WebCrawler.fetch_and_process from the response on
Web_fetch_and_process(u, r, vis) ==
    IF r.exc THEN Failed(u, 0, "get")
    ELSE IF r.status # OkStatus THEN Skipped(u, "Non-200 status", r.status)
    ELSE IF ~IsHtml(r.content_type) THEN
        Skipped(u, "Non-HTML content", r.status)
    ELSE IF r.parsed.raised THEN Failed(u, 1, "parse_links")
    ELSE Crawled(u, r.status, r.parsed.links, vis)

\* the response (or exception) of the GET arrives; the rest of
\* WebCrawler.fetch_and_process runs and the semaphore is released
WebFetch(u, r) ==
    /\ kind = "WebCrawler"
    /\ Scheduled(u)
    /\ tstate[u] = "fetching"
    /\ LET f == Web_fetch_and_process(u, r, visited)
       IN /\ pages_crawled' = pages_crawled + f.pages
          /\ error_count' = error_count + f.errors
          /\ queue' = queue \o f.append
          /\ discovered' = discovered \cup f.found
          /\ crawl_sessions' =
               [crawl_sessions EXCEPT
                  !.pages = @ + (IF f.pages = 1 /\ f.errors = 0 THEN 1 ELSE 0)]
          /\ tstate' = [tstate EXCEPT ![u] = f.end]
          /\ last' = Step("fetch", u, [r EXCEPT !.parsed = Unparsed], f.events,
                          [found |-> f.found, append |-> f.append])
    /\ semaphore' = Release(semaphore)
    /\ UNCHANGED <<kind, max_concurrent, enable_logging, pc, to_visit, visited,
                   tasks, session, status, added, dispatched, summaries, outcome>>

\* mutant: the final update writes the status and not the counters
final_update_StatusOnly(reg, st, pages, errors) == [reg EXCEPT !.status = st]

\* `crawl_sessions[self.session_id].update({"status": ..., "pages_crawled":
\* ..., "error_count": ...})` at the end of the finally block
final_update(reg, st, pages, errors) ==
    [reg EXCEPT !.status = st, !.pages_crawled = pages, !.error_count = errors]

\* the finally block of WebCrawler.start
WebFinally ==
    /\ kind = "WebCrawler"
    /\ pc = "finally"
    /\ session' = close_session(session)
    /\ status' = IF status = "running" THEN "completed" ELSE status
    /\ summaries' = summaries \o Logged(<<status'>>)
    /\ crawl_sessions' =
         final_update([crawl_sessions EXCEPT !.log_file = enable_logging],
                      status', pages_crawled, error_count)
    /\ pc' = "done"
    /\ outcome' = "returned"
    /\ last' = Step("finally", base_url, NoResponse,
                    Logged(<<Event("summary", base_url, status', 0)>>), <<>>)
    /\ UNCHANGED <<kind, max_concurrent, enable_logging, to_visit, queue,
                   visited, tasks, tstate, semaphore, pages_crawled,
                   error_count, added, dispatched, discovered>>

\* the id start_crawl gave the session, and an id it never gave
SessionIds == {"s1", "s2"}

\* `session_id in crawl_sessions`
InRegistry(id, reg) == id = "s1" /\ reg.status # "none"

NotFound == [code |-> 404, error |-> "Session not found"]

\* mutant: a second stop request resumes the session
stop_status_Toggle(s) == IF s = "stopped" THEN "running" ELSE "stopped"

\* `crawl_sessions[session_id]["status"] = "stopped"`
stop_status(s) == "stopped"

\* mutant: the lookup of the session is skipped
stop_crawl_Unguarded(id, reg) ==
    [registry |-> [reg EXCEPT !.status = stop_status(reg.status)],
     reply |-> [code |-> 200, error |-> ""]]

\* stop_crawl(session_id): the registry after the call and the response
stop_crawl(id, reg) ==
    IF ~InRegistry(id, reg) THEN [registry |-> reg, reply |-> NotFound]
    ELSE [registry |-> [reg EXCEPT !.status = stop_status(reg.status)],
          reply |-> [code |-> 200, error |-> ""]]

\* POST /api/stop_crawl/<session_id>; `before` is the status the registry
\* held when the request arrived
StopCrawl(id) ==
    /\ kind = "WebCrawler"
    /\ crawl_sessions' = stop_crawl(id, crawl_sessions).registry
    /\ last' = Step("stop_crawl", base_url,
                    [id |-> id, before |-> crawl_sessions.status], <<>>,
                    stop_crawl(id, crawl_sessions).reply)
    /\ UNCHANGED <<kind, max_concurrent, enable_logging, pc, to_visit, queue,
                   visited, tasks, tstate, semaphore, pages_crawled,
                   error_count, session, status, added, dispatched, discovered,
                   summaries, outcome>>

\* GET /api/crawl_status/<session_id>
get_crawl_status(id) ==
    /\ kind = "WebCrawler"
    /\ last' = Step("crawl_status", base_url,
                    [id |-> id, before |-> crawl_sessions.status], <<>>,
                    IF ~InRegistry(id, crawl_sessions) THEN NotFound
                    ELSE [code |-> 200, error |-> ""])
    /\ UNCHANGED <<kind, max_concurrent, enable_logging, pc, to_visit, queue,
                   visited, tasks, tstate, semaphore, pages_crawled,
                   error_count, session, status, crawl_sessions, added,
                   dispatched, discovered, summaries, outcome>>

\* GET /api/download_log/<session_id>
download_log(id) ==
    /\ kind = "WebCrawler"
    /\ last' = Step("download_log", base_url,
                    [id |-> id, before |-> crawl_sessions.status], <<>>,
                    IF ~InRegistry(id, crawl_sessions) THEN NotFound
                    ELSE IF ~crawl_sessions.log_file
                    THEN [code |-> 404, error |-> "Log file not found"]
                    ELSE [code |-> 200, error |-> ""])
    /\ UNCHANGED <<kind, max_concurrent, enable_logging, pc, to_visit, queue,
                   visited, tasks, tstate, semaphore, pages_crawled,
                   error_count, session, status, crawl_sessions, added,
                   dispatched, discovered, summaries, outcome>>

Next ==
    \/ \E seed \in Seeds : Construct(seed)
    \/ \E seed \in Seeds : start_crawl(seed)
    \/ \E h \in HeadOutcomes : CrawlerProbe(h)
    \/ CrawlerLoop
    \/ CrawlerWait
    \/ CrawlerFinally
    \/ \E u \in CanonicalUrls : Acquire(u)
    \/ \E u \in CanonicalUrls : \E r \in Responses[u] : Fetch(u, r)
    \/ \E h \in HeadOutcomes : WebProbe(h)
    \/ WebLoop
    \/ WebGather
    \/ \E u \in CanonicalUrls : \E r \in Responses[u] : WebFetch(u, r)
    \/ WebFinally
    \/ \E id \in SessionIds : StopCrawl(id)
    \/ \E id \in SessionIds : get_crawl_status(id)
    \/ \E id \in SessionIds : download_log(id)

Spec == Init /\ [][Next]_vars

\* the steps of the thread that runs start(): every action but the request
\* handlers of the web application
CrawlThread ==
    \/ \E seed \in Seeds : Construct(seed)
    \/ \E h \in HeadOutcomes : CrawlerProbe(h)
    \/ CrawlerLoop
    \/ CrawlerWait
    \/ CrawlerFinally
    \/ \E u \in CanonicalUrls : Acquire(u)
    \/ \E u \in CanonicalUrls : \E r \in Responses[u] : Fetch(u, r)
    \/ \E h \in HeadOutcomes : WebProbe(h)
    \/ WebLoop
    \/ WebGather
    \/ \E u \in CanonicalUrls : \E r \in Responses[u] : WebFetch(u, r)
    \/ WebFinally

\* The event loop of that thread keeps running the coroutines that are ready,
\* and the probe and every GET end (with a response or an exception): while
\* the thread has a step to take, it takes one.
Fairness == WF_vars(CrawlThread)

FairSpec == Spec /\ Fairness

----------------------------------------------------------------------------
(* Link extraction alone: parse_links applied to one page, for a wider set *)
(* of anchors than the site of the crawl carries.                          *)

\* the anchors of a page: the hrefs of the site, and an anchor without href,
\* links of other schemes, a subdomain and a second spelling of /a
ExtractAnchors ==
    Hrefs \cup
    { NoHref,
      Url("mailto", "", <<"example.com">>, "", ""),
      Url("mailto", "", <<"x@example.com">>, "", ""),
      Url("ftp", "example.com", <<"/", "a">>, "", ""),
      Url("https", "sub.example.com", <<"/", "a">>, "", ""),
      Url("", "", <<"/", "a", "/">>, "", ""),
      Url("", "", <<"/", "a", ";", "p", "/">>, "", "") }

ExtractPages == SeqsUpTo(ExtractAnchors, MaxAnchors)

\* the pages whose bodies are parsed: the seed and a page below it
ExtractBases == {base_url, Url("https", "example.com", <<"/", "a">>, "", "")}

\* a Crawler for the seed, the page dispatched and its response awaited
ExtractInit ==
    /\ kind = "Crawler"
    /\ max_concurrent = 1
    /\ enable_logging = TRUE
    /\ pc = "extract"
    /\ to_visit = <<>>
    /\ queue = <<>>
    /\ visited \in {{u} : u \in ExtractBases}
    /\ tasks = <<>>
    /\ tstate = [u \in CanonicalUrls |-> "none"]
    /\ semaphore = 0
    /\ pages_crawled = 0
    /\ error_count = 0
    /\ session = "open"
    /\ status = "none"
    /\ crawl_sessions = NoSession
    /\ added = [u \in CanonicalUrls |-> 0]
    /\ dispatched = [u \in CanonicalUrls |-> 0]
    /\ discovered = {}
    /\ summaries = <<>>
    /\ outcome = "running"
    /\ last = Step("init", base_url, <<>>, <<>>, <<>>)

\* `links = self.parse_links(url, html)` and the loop that appends the
\* unvisited links, for a 200 text/html response with the body html
Extract(u, html) ==
    /\ pc = "extract"
    /\ u \in visited
    /\ LET r == parse_links(u, html)
           f == IF r.raised THEN Failed(u, 1, "parse_links")
                ELSE Crawled(u, OkStatus, r.links, visited)
       IN /\ pages_crawled' = pages_crawled + f.pages
          /\ error_count' = error_count + f.errors
          /\ to_visit' = to_visit \o f.append
          /\ last' = Step("parse_links", u, html, f.events,
                          [raised |-> r.raised, links |-> r.links,
                           append |-> f.append])
    /\ pc' = "extracted"
    /\ UNCHANGED <<kind, max_concurrent, enable_logging, queue, visited, tasks,
                   tstate, semaphore, session, status, crawl_sessions, added,
                   dispatched, discovered, summaries, outcome>>

ExtractNext == \E u \in ExtractBases : \E html \in ExtractPages : Extract(u, html)

ExtractSpec == ExtractInit /\ [][ExtractNext]_vars

----------------------------------------------------------------------------
(* The URL helpers of utils.py on their own: each is applied once to an    *)
(* input drawn in the initial state.                                       *)

\* the URLs given to normalize_url and is_same_domain
UtilUrls ==
    { Url("https", "example.com", <<>>, "", ""),
      Url("https", "example.com", <<"/">>, "", ""),
      Url("https", "example.com", <<"/", "a", "/">>, "q=1", "frag"),
      Url("https", "example.com", <<"/", "a", "/", "/">>, "", ""),
      Url("https", "example.com", <<"/", "a", ";", "p", "/">>, "", ""),
      Url("https", "example.com", <<"/", "a", ";", "p">>, "", ""),
      Url("http", "example.com", <<"/", "a">>, "", ""),
      Url("https", "example.com:443", <<"/", "a">>, "", ""),
      Url("https", "sub.example.com", <<"/", "a">>, "", ""),
      Url("https", "other.com", <<"/", "c">>, "", ""),
      Url("http", "[bad", <<>>, "", ""),
      Url("", "", <<"/", "a", "/">>, "", ""),
      Url("mailto", "", <<"x@example.com">>, "", "") }

\* a URL and a seed are chosen
UtilInit ==
    /\ kind = "Crawler"
    /\ max_concurrent = 1
    /\ enable_logging = TRUE
    /\ pc = "util"
    /\ to_visit = <<>>
    /\ queue = <<>>
    /\ visited = {}
    /\ tasks = <<>>
    /\ tstate = [u \in CanonicalUrls |-> "none"]
    /\ semaphore = 0
    /\ pages_crawled = 0
    /\ error_count = 0
    /\ session = "none"
    /\ status = "none"
    /\ crawl_sessions = NoSession
    /\ added = [u \in CanonicalUrls |-> 0]
    /\ dispatched = [u \in CanonicalUrls |-> 0]
    /\ discovered = {}
    /\ summaries = <<>>
    /\ outcome = "running"
    /\ last \in {Step("input", u, seed, <<>>, <<>>) : u \in UtilUrls, seed \in UtilSeeds}

\* normalize_url(x) and normalize_url of its result
Normalize ==
    /\ pc = "util"
    /\ LET x == last.url
           once == normalize_url(x)
       IN last' = Step("normalize_url", x, last.arg, <<>>,
                       [raised |-> UrlparseRaises(x), url |-> once,
                        again |-> normalize_url(once)])
    /\ pc' = "applied"
    /\ UNCHANGED <<kind, max_concurrent, enable_logging, to_visit, queue,
                   visited, tasks, tstate, semaphore, pages_crawled, error_count,
                   session, status, crawl_sessions, added, dispatched, discovered,
                   summaries, outcome>>

\* is_same_domain(base, link)
SameDomain(link) ==
    /\ pc = "util"
    /\ last' = Step("is_same_domain", last.url, link, <<>>,
                    [raised |-> FALSE, same |-> is_same_domain(last.url, link)])
    /\ pc' = "applied"
    /\ UNCHANGED <<kind, max_concurrent, enable_logging, to_visit, queue,
                   visited, tasks, tstate, semaphore, pages_crawled, error_count,
                   session, status, crawl_sessions, added, dispatched, discovered,
                   summaries, outcome>>

\* validate_and_complete_url(seed) and, when it returns, the function applied
\* to the string returned
Validate ==
    /\ pc = "util"
    /\ LET v == validate_and_complete_url(last.arg)
       IN last' = Step("validate_and_complete_url", last.url, last.arg, <<>>,
                       [raised |-> v.raised, text |-> v.text, url |-> v.url,
                        completed |-> v.completed,
                        again |-> validate_and_complete_url(v.completed)])
    /\ pc' = "applied"
    /\ UNCHANGED <<kind, max_concurrent, enable_logging, to_visit, queue,
                   visited, tasks, tstate, semaphore, pages_crawled, error_count,
                   session, status, crawl_sessions, added, dispatched, discovered,
                   summaries, outcome>>

UtilNext ==
    \/ Normalize
    \/ \E link \in UtilUrls : SameDomain(link)
    \/ Validate

UtilSpec == UtilInit /\ [][UtilNext]_vars

----------------------------------------------------------------------------
(* Properties.                                                             *)

\* the frontier: self.to_visit of Crawler.start, `queue` of WebCrawler.start
Frontier == IF kind = "Crawler" THEN to_visit ELSE queue

\* the fetch_and_process coroutines inside `async with self.semaphore`
Holders == {u \in CanonicalUrls : tstate[u] = "fetching"}

InSeq(u, seq) == \E i \in 1..Len(seq) : seq[i] = u

\* C1: no duplicate fetch. In every step, of Crawler.start and of
\* WebCrawler.start, each URL has been added to the visited set at most once
\* and has had fetch_and_process called for it at most once; a URL that is in
\* the visited set gets no further add and no further fetch_and_process; and
\* every URL a dispatch step discards is in the visited set and is not
\* dispatched by being discarded.
NoDuplicateFetch ==
    [][ /\ \A u \in CanonicalUrls : added'[u] <= 1 /\ dispatched'[u] <= 1
        /\ \A u \in visited :
              added'[u] = added[u] /\ dispatched'[u] = dispatched[u]
        /\ last'.op = "dispatch" =>
              /\ \A i \in 1..Len(last'.ret.discarded) :
                    last'.ret.discarded[i] \in visited'
              /\ \A u \in CanonicalUrls :
                    dispatched'[u] = dispatched[u] + CountIn(u, last'.ret.created)
      ]_vars

\* C1 witness: Crawler.start dequeued a URL that was already visited and
\* discarded it, in a dispatch step that also created a task
DuplicateDiscarded ==
    /\ kind = "Crawler"
    /\ last.op = "dispatch"
    /\ last.ret.discarded # <<>>
    /\ last.ret.created # <<>>
    /\ \A i \in 1..Len(last.ret.discarded) :
          dispatched[last.ret.discarded[i]] = 1

\* C2: concurrency bound. In every reachable state the number of
\* fetch_and_process coroutines that hold a semaphore slot is at most
\* max_concurrent.
ConcurrencyBound == Cardinality(Holders) <= max_concurrent

\* C2 witness: every slot is held and a further scheduled coroutine waits for
\* one
SlotsExhausted ==
    /\ max_concurrent >= 1
    /\ Cardinality(Holders) = max_concurrent
    /\ \E u \in CanonicalUrls : Scheduled(u) /\ tstate[u] = "created"

\* C3: termination of Crawler.start. With max_concurrent >= 1, the probe and
\* every GET ending, Crawler.start that has entered its dispatch loop
\* eventually leaves it; and it is past the loop only with the frontier empty,
\* no task pending and every created task finished.
Termination ==
    /\ [](kind = "Crawler" /\ pc \in {"finally", "done"} =>
            /\ to_visit = <<>>
            /\ tasks = <<>>
            /\ \A u \in CanonicalUrls : tstate[u] \in {"none", "returned"})
    /\ (kind = "Crawler" /\ max_concurrent >= 1 /\ pc = "loop")
          ~> (pc \in {"finally", "done"})

\* C3 witness: Crawler.start left the loop after it visited every URL of the
\* site, with a page crawled and an error counted
CrawlerDrained ==
    /\ kind = "Crawler"
    /\ pc = "finally"
    /\ visited = CanonicalUrls
    /\ pages_crawled >= 1
    /\ error_count >= 1

Responded == last'.op = "fetch" /\ ~last'.arg.exc

\* the events of kind k the step just taken logged for its URL
LoggedOf(k) == SelectSeq(last'.events, LAMBDA e : e.kind = k /\ e.url = last'.url)

NonHtmlSkippedLogged ==
    [][ (Responded /\ last'.arg.status = 200
            /\ last'.arg.content_type # "text/html") =>
            /\ pages_crawled' = pages_crawled
            /\ error_count' = error_count
            /\ Len(LoggedOf("skipped")) = 1
            /\ Frontier' = Frontier
      ]_vars

\* C6 amended: a response with status 200 and a content type other than HTML
\* leaves pages_crawled and error_count unchanged and appends no link to the
\* frontier; exactly one 'skipped' event is recorded for the URL when the
\* crawler has a logger (always for WebCrawler), none when Crawler was
\* constructed with enable_logging = False.
NonHtmlSkipped ==
    [][ (Responded /\ last'.arg.status = 200
            /\ last'.arg.content_type # "text/html") =>
            /\ pages_crawled' = pages_crawled
            /\ error_count' = error_count
            /\ Len(LoggedOf("skipped")) = (IF enable_logging THEN 1 ELSE 0)
            /\ Len(last'.events) = (IF enable_logging THEN 1 ELSE 0)
            /\ Frontier' = Frontier
      ]_vars

\* C6 witness: a JSON response with status 200 was skipped with its event,
\* after a page had been crawled
JsonSkipped ==
    /\ last.op = "fetch"
    /\ ~last.arg.exc
    /\ last.arg.status = 200
    /\ last.arg.content_type = "application/json"
    /\ Len(last.events) = 1
    /\ last.events[1].kind = "skipped"
    /\ pages_crawled >= 1

\* C7 as stated: in Crawler and in WebCrawler, an HTML response with a status
\* of the success or redirect range increments pages_crawled by exactly 1,
\* records a 'page crawled' event (given a logger) and appends to the frontier
\* exactly the extracted links that are not in the visited set.
HtmlPageCounted ==
    [][ (Responded /\ last'.arg.status >= 200 /\ last'.arg.status < 400
            /\ last'.arg.content_type = "text/html") =>
            /\ pages_crawled' = pages_crawled + 1
            /\ enable_logging => Len(LoggedOf("crawled")) = 1
            /\ Frontier' = Frontier \o NewLinks(last'.ret.found, visited)
      ]_vars

\* C8: per-page failures never abort the crawl. When the GET of a URL raises,
\* error_count grows by 1, pages_crawled and the frontier are unchanged and
\* the coroutine returns normally; start() never ends with an exception of a
\* task; and after such a failure start() goes on to its end, where the
\* frontier is empty and every URL that was ever in it has been dequeued,
\* marked visited and dispatched once.
PageFailureContained ==
    /\ [][ (last'.op = "fetch" /\ last'.arg.exc) =>
              /\ error_count' = error_count + 1
              /\ pages_crawled' = pages_crawled
              /\ Frontier' = Frontier
              /\ tstate'[last'.url] = "returned"
         ]_vars
    /\ [](outcome # "Exception" /\ \A u \in CanonicalUrls : tstate[u] # "raised")
    /\ []((pc = "done" /\ error_count > 0) =>
             /\ Frontier = <<>>
             /\ \A u \in {base_url} \cup discovered :
                   u \in visited /\ dispatched[u] = 1)
    /\ (last.op = "fetch" /\ last.arg.exc) ~> (pc = "done")

\* C8 witness: the GET of a URL raised in Crawler while other URLs, not yet
\* visited, were in the frontier
GetRaisedWithFrontier ==
    /\ kind = "Crawler"
    /\ last.op = "fetch"
    /\ last.arg.exc
    /\ error_count = 1
    /\ \E i \in 1..Len(to_visit) : to_visit[i] \notin visited

\* the HEAD request ended in a way the probe reports as not accessible
ProbeRejects(h) ==
    h.kind # "response" \/ h.status \notin {200, 301, 302, 303, 307, 308}

\* C9: scenario D. When the probe of the seed reports not accessible (or
\* raises), start() ends at once: Crawler.start raises ValueError and
\* WebCrawler.start sets the status 'invalid' (its own and the registry's)
\* and returns; from then on pages_crawled is 0, the visited set is empty, no
\* fetch_and_process was dispatched, no session was created for the loop, and
\* every summary logged says 'invalid'.
SeedRejected ==
    /\ (last.op = "probe" /\ ProbeRejects(last.arg)) =>
          /\ pc \in {"raised", "done"}
          /\ kind = "Crawler" => outcome = "ValueError"
          /\ kind = "WebCrawler" =>
                status = "invalid" /\ crawl_sessions.status = "invalid"
    /\ (outcome = "ValueError" \/ status = "invalid") =>
          /\ pc \in {"raised", "done"}
          /\ pages_crawled = 0
          /\ error_count = 0
          /\ visited = {}
          /\ tasks = <<>>
          /\ \A u \in CanonicalUrls : dispatched[u] = 0 /\ tstate[u] = "none"
          /\ session = "none"
          /\ \A i \in 1..Len(summaries) : summaries[i] = "invalid"

\* C9 witness: the probe of WebCrawler.start timed out and the session is
\* 'invalid'
ProbeTimedOut ==
    /\ kind = "WebCrawler"
    /\ last.op = "probe"
    /\ last.arg.kind = "TimeoutError"
    /\ status = "invalid"
    /\ pc = "done"

\* C10: probe classification. verify_url_accessibility returns accessible
\* exactly for the statuses 200, 301, 302, 303, 307 and 308; for any other
\* status the message carries the status code; for a timeout, a connection
\* failure and a malformed URL it returns not accessible, with a message no
\* other outcome gets; and no exception leaves it.
ProbeClassification ==
    last.op = "probe" =>
        LET h == last.arg
            r == last.ret
        IN /\ ~r.raised
           /\ r.accessible <=>
                 (h.kind = "response" /\ h.status \in {200, 301, 302, 303, 307, 308})
           /\ (h.kind = "response" /\ ~r.accessible) => r.code = h.status
           /\ h.kind \in {"TimeoutError", "ClientConnectorError", "InvalidURL"} =>
                 /\ ~r.accessible
                 /\ \A g \in HeadOutcomes :
                       g.kind # h.kind => verify_url_accessibility(g).text # r.text

\* C10 witness: a 308 of the HEAD request was accepted and the crawl went on
PermanentRedirectAccepted ==
    /\ last.op = "probe"
    /\ last.arg.kind = "response"
    /\ last.arg.status = 308
    /\ last.ret.accessible
    /\ pc \in {"loop", "webloop"}

\* the states of a session no transition should leave
TerminalStates == {"completed", "error", "invalid", "stopped"}

\* a stop request for the running session has set the registry's status while
\* WebCrawler.start is in its loop
StopRequested ==
    /\ kind = "WebCrawler"
    /\ status = "running"
    /\ crawl_sessions.status = "stopped"

\* C11 as stated: once stop is requested for a running session, no step
\* dispatches a further fetch and the registry's status stays 'stopped'.
StopObserved ==
    [][ StopRequested =>
            /\ dispatched' = dispatched
            /\ crawl_sessions'.status = "stopped"
      ]_vars

\* the place of a status in the lifecycle
StatusRank(s) ==
    CASE s = "none" -> 0
      [] s = "initializing" -> 1
      [] s = "running" -> 2
      [] OTHER -> 3

\* C12 as stated: the status of the session in the registry moves forward
\* through initializing, running and one terminal state, and a terminal
\* status never changes again.
TerminalAbsorbing ==
    [][ /\ StatusRank(crawl_sessions'.status) >= StatusRank(crawl_sessions.status)
        /\ crawl_sessions.status \in TerminalStates =>
              crawl_sessions'.status = crawl_sessions.status
      ]_vars

\* C13: stop is idempotent. For the session of the registry, in every
\* reachable state, stop_crawl applied to the registry that stop_crawl left
\* gives the same registry and the same response (200) as the first call; and
\* a stop request that directly follows a stop request changes neither the
\* registry nor the crawl, and answers as the first did.
StopIdempotent ==
    /\ [](\A id \in SessionIds :
            InRegistry(id, crawl_sessions) =>
               LET once == stop_crawl(id, crawl_sessions)
                   twice == stop_crawl(id, once.registry)
               IN /\ once.reply.code = 200
                  /\ twice.reply = once.reply
                  /\ twice.registry = once.registry)
    /\ [][ (/\ last.op = "stop_crawl" /\ last'.op = "stop_crawl"
            /\ last.arg.id = last'.arg.id
            /\ InRegistry(last.arg.id, crawl_sessions)) =>
              /\ crawl_sessions' = crawl_sessions
              /\ last'.ret = last.ret
              /\ UNCHANGED <<pc, status, queue, visited, tasks, tstate,
                             pages_crawled, error_count, session>>
         ]_vars

\* C13 witness: a stop request arrived for the session while its status was
\* already 'stopped', during a batch of WebCrawler.start
StoppedTwice ==
    /\ last.op = "stop_crawl"
    /\ last.arg.id = "s1"
    /\ last.arg.before = "stopped"
    /\ last.ret.code = 200
    /\ crawl_sessions.status = "stopped"
    /\ pc = "gather"

\* C14 as stated: a crawl that has ended, with a logger, has logged exactly
\* one summary, and no crawl logs more than one.
SummaryOnce ==
    /\ Len(summaries) <= 1
    /\ (enable_logging /\ pc \in {"done", "raised"}) => Len(summaries) = 1

\* C15: transport session lifecycle. The session changes only from absent to
\* open, in the step where the probe returned accessible, and from open to
\* closed, in the finally block; the loop runs only with an open session;
\* and when start() has returned or raised the session is closed if it was
\* ever created.
SessionLifecycle ==
    /\ [][ session' # session =>
              \/ /\ session = "none" /\ session' = "open"
                 /\ last'.op = "probe" /\ last'.ret.accessible
              \/ /\ session = "open" /\ session' = "closed"
                 /\ last'.op = "finally"
         ]_vars
    /\ [](pc \in {"loop", "wait", "webloop", "gather", "finally"} =>
             session = "open")
    /\ [](pc \in {"done", "raised", "rejected"} => session \in {"none", "closed"})
    /\ []((pc \in {"done", "raised"} /\ session = "none") =>
             (outcome = "ValueError" \/ status = "invalid"))

\* C15 witness: start() has returned after a crawl in which a page failed,
\* and the session is closed
SessionClosedAfterFailure ==
    /\ pc = "done"
    /\ session = "closed"
    /\ error_count >= 1
    /\ pages_crawled >= 1

\* C16: definitive final snapshot. Under fairness of the crawl thread, every
\* session start_crawl created (with a concurrency limit of at least 1)
\* reaches the end of its thread with a terminal status in the registry; and
\* whenever the thread has finished, the registry's status is terminal and
\* its pages_crawled and error_count equal the crawler's counters.
FinalSnapshot ==
    /\ []((kind = "WebCrawler" /\ pc = "done") =>
             /\ crawl_sessions.status \in TerminalStates
             /\ crawl_sessions.pages_crawled = pages_crawled
             /\ crawl_sessions.error_count = error_count)
    /\ (kind = "WebCrawler" /\ pc = "probe" /\ max_concurrent >= 1)
          ~> (pc = "done" /\ crawl_sessions.status \in TerminalStates)

\* C16 witness: the thread has finished a crawl in which a page was crawled
\* and a page failed, and the registry carries both counts
SnapshotWithErrors ==
    /\ kind = "WebCrawler"
    /\ pc = "done"
    /\ pages_crawled >= 1
    /\ error_count >= 1
    /\ crawl_sessions.pages_crawled = pages_crawled
    /\ crawl_sessions.error_count = error_count

\* the seeds the claim names: missing, empty, whitespace only, and text that
\* is no URL
NamedInvalidSeeds ==
    { Seed(FALSE, 0, "", <<>>), Seed(TRUE, 0, "", <<>>), Seed(TRUE, 3, "", <<>>),
      Seed(TRUE, 0, "", <<"not a url">>) }

\* what start_crawl and Crawler(...) leave untouched when they refuse a seed
Untouched ==
    /\ crawl_sessions = NoSession
    /\ status = "none"
    /\ session = "none"
    /\ to_visit = <<>> /\ queue = <<>> /\ visited = {} /\ tasks = <<>>
    /\ \A u \in CanonicalUrls : dispatched[u] = 0 /\ tstate[u] = "none"
    /\ pages_crawled = 0 /\ error_count = 0
    /\ summaries = <<>>

\* C17: input validation is terminal and side-effect free. For a seed that is
\* missing, empty, whitespace only or refused by validate_and_complete_url,
\* start_crawl answers 400 and Crawler(...) raises ValueError; then, and
\* ever after, the registry is empty, no status is 'running', nothing was
\* probed, fetched or logged, and no step of a crawl follows.
InvalidSeedRejected ==
    /\ []((last.op \in {"construct", "start_crawl"} /\
             (last.arg \in NamedInvalidSeeds \/
              validate_and_complete_url(last.arg).raised)) =>
             /\ pc = "rejected"
             /\ last.op = "start_crawl" => last.ret.code = 400
             /\ last.op = "construct" => outcome = "InvalidBaseUrl")
    /\ [](pc = "rejected" => Untouched)
    /\ [][pc = "rejected" => pc' = "rejected"]_vars

\* C17 witness: start_crawl answered 400 for the seed 'not a url'
NotAUrlRejected ==
    /\ kind = "WebCrawler"
    /\ pc = "rejected"
    /\ last.op = "start_crawl"
    /\ last.arg = Seed(TRUE, 0, "", <<"not a url">>)
    /\ last.ret.code = 400
    /\ last.ret.error = "Invalid domain format"

\* C18: unknown session. A crawl_status, stop_crawl or download_log request
\* for an id that is not in the registry is answered 404 'Session not
\* found' and leaves the registry, and the crawl, as they were.
UnknownSession ==
    [][ (/\ last'.op \in {"crawl_status", "stop_crawl", "download_log"}
         /\ ~InRegistry(last'.arg.id, crawl_sessions)) =>
            /\ last'.ret = [code |-> 404, error |-> "Session not found"]
            /\ crawl_sessions' = crawl_sessions
            /\ UNCHANGED <<pc, status, queue, visited, tasks, tstate,
                           pages_crawled, error_count, session>>
      ]_vars

\* C18 witness: a stop request for an id that was never given was refused
\* while the session of the registry was running
UnknownStopRefused ==
    /\ last.op = "stop_crawl"
    /\ last.arg.id = "s2"
    /\ last.ret.code = 404
    /\ crawl_sessions.status = "running"
    /\ pc = "gather"

\* the anchors of a page that carry an href, in document order
WithHref(html) == SelectSeq(html, LAMBDA a : a # NoHref)

\* C19 as stated: for any page, parse_links returns exactly the set of
\* normalize(resolve(base, href)) over the anchors that have an href and
\* whose resolved URL has the seed's host, and each of them is appended to
\* the frontier once (unless visited).
ExtractionExact ==
    last.op = "parse_links" =>
        LET anchors == WithHref(last.arg)
            resolved(i) == get_absolute_url(last.url, anchors[i])
            expected == { normalize_url(resolved(i)) : i \in
                            { j \in 1..Len(anchors) :
                                resolved(j).netloc = base_url.netloc } }
        IN /\ ~last.ret.raised
           /\ last.ret.links = expected
           /\ \A l \in expected \ visited : CountIn(l, to_visit) = 1
           /\ \A i \in 1..Len(to_visit) : to_visit[i] \in expected \ visited

\* C20 as stated: every URL parse_links returns, and every URL appended to
\* the frontier from the page, has the scheme http or https.
HttpSchemesOnly ==
    last.op = "parse_links" =>
        /\ \A l \in last.ret.links : l.scheme \in {"http", "https"}
        /\ \A i \in 1..Len(to_visit) : to_visit[i].scheme \in {"http", "https"}

\* C21 as stated: when a page carries an anchor whose href cannot be parsed,
\* parse_links returns the links of the other anchors, the page counts as
\* crawled and not as an error, and those links are appended.
BadLinkTolerated ==
    (last.op = "parse_links" /\
       \E i \in 1..Len(last.arg) : UrlparseRaises(last.arg[i])) =>
        LET valid == parse_links(last.url,
                        SelectSeq(last.arg, LAMBDA a : ~UrlparseRaises(a))).links
        IN /\ ~last.ret.raised
           /\ last.ret.links = valid
           /\ pages_crawled = 1
           /\ error_count = 0
           /\ to_visit = NewLinks(valid, visited)

\* a stored URL in canonical form
Canonical(u) ==
    /\ u.scheme # "" /\ u.netloc # ""
    /\ u.query = "" /\ u.fragment = ""
    /\ u.path = <<>> \/ u.path[Len(u.path)] # "/"
    /\ normalize_url(u) = u

\* C22 as stated: every URL in the frontier or in the visited set is
\* canonical.
CanonicalStorage ==
    /\ \A u \in visited : Canonical(u)
    /\ \A i \in 1..Len(to_visit) : Canonical(to_visit[i])
    /\ \A i \in 1..Len(queue) : Canonical(queue[i])

\* an absolute URL: it has a scheme and a host, and urlparse accepts it
Absolute(x) == x.scheme # "" /\ x.netloc # "" /\ ~UrlparseRaises(x)

\* C23 as stated: for every absolute URL x, normalize_url(normalize_url(x)) =
\* normalize_url(x), and normalize_url(x) has x's scheme and host, x's path
\* without its trailing slash, no query and no fragment.
NormalizeIdempotent ==
    (last.op = "normalize_url" /\ Absolute(last.url)) =>
        /\ ~last.ret.raised
        /\ last.ret.again = last.ret.url
        /\ last.ret.url = Url(last.url.scheme, last.url.netloc,
                              rstrip(last.url.path), "", "")

\* C24: is_same_domain(base, candidate) never raises and, for a base that
\* parses, is true exactly when the candidate parses and its host string
\* (netloc) equals the base's: scheme and path play no part, (base, base)
\* is true, a subdomain, another host and an unparsable candidate are false.
SameDomainExact ==
    (last.op = "is_same_domain" /\ ~UrlparseRaises(last.url)) =>
        LET b == last.url
            l == last.arg
        IN /\ ~last.ret.raised
           /\ last.ret.same <=> (~UrlparseRaises(l) /\ l.netloc = b.netloc)
           /\ l = b => last.ret.same
           /\ UrlparseRaises(l) => ~last.ret.same
           /\ (b.netloc = "example.com" /\
                 l.netloc \in {"sub.example.com", "other.com"}) => ~last.ret.same

\* C24 witness: the same host under another scheme and path is accepted
SameHostOtherScheme ==
    /\ last.op = "is_same_domain"
    /\ last.url = Url("https", "example.com", <<>>, "", "")
    /\ last.arg = Url("http", "example.com", <<"/", "a">>, "", "")
    /\ last.ret.same

\* the seed is a string with a host of valid shape
ValidHost(seed) ==
    /\ seed.present
    /\ seed.rest # <<>>
    /\ domain_pattern(seed.rest[1])

\* C25 as stated: a seed without a scheme whose host has a valid shape is
\* returned with "https://" before it, its path, query and fragment kept; a
\* seed with a scheme and a valid host is returned unchanged; applying the
\* function to an accepted result returns that result.
ValidateCompletes ==
    (last.op = "validate_and_complete_url" /\ ValidHost(last.arg)) =>
        LET seed == last.arg
        IN /\ ~last.ret.raised
           /\ seed.scheme = "" =>
                last.ret.completed = Seed(TRUE, 0, "https", seed.rest)
           /\ (seed.scheme # "" /\ seed.pad = 0) => last.ret.completed = seed
           /\ ~last.ret.again.raised
           /\ last.ret.again.completed = last.ret.completed

\* C26 as stated: for a seed whose host starts with "www.www.", the URL
\* returned has a host with one "www." ("www.www.example.com" gives
\* "https://www.example.com").
DoubleWwwCleaned ==
    (last.op = "validate_and_complete_url" /\ last.arg.present /\
       last.arg.rest = <<"www.www.example.com">>) =>
        /\ ~last.ret.raised
        /\ last.ret.url = Url("https", "www.example.com", <<>>, "", "")

\* C27 as stated: normalize_url raises for every input that has no scheme or
\* no host.
NormalizeRejectsMalformed ==
    (last.op = "normalize_url" /\
       (last.url.scheme = "" \/ last.url.netloc = "")) => last.ret.raised

\* C28 as stated: immediately after every dispatch step of Crawler.start the
\* frontier is empty or exactly max_concurrent fetch operations are
\* outstanding, whatever the number of semaphore slots held.
WorkConserving ==
    (kind = "Crawler" /\ last.op = "dispatch") =>
        (to_visit = <<>> \/ Len(tasks) = max_concurrent)

\* C29 as stated: every iteration of the outer loop of Crawler.start removes
\* a URL from the frontier or goes on to wait for a task, for every
\* max_concurrent the constructor accepts, 0 included.
NoBusyPolling ==
    [][(kind = "Crawler" /\ pc = "loop" /\ last'.op = "dispatch") =>
         (to_visit' # to_visit \/ (pc' = "wait" /\ tasks' # <<>>))]_vars

\* s is what is left of t after removals at its head
IsSuffix(s, t) == \E k \in 0..Len(t) : s = SubSeq(t, k + 1, Len(t))

\* t is s with elements appended at its tail
IsPrefix(s, t) == Len(s) <= Len(t) /\ s = SubSeq(t, 1, Len(s))

\* seq without the later occurrences of its elements
RECURSIVE FirstOccurrences(_)
FirstOccurrences(seq) ==
    IF seq = <<>> THEN <<>>
    ELSE LET front == FirstOccurrences(SubSeq(seq, 1, Len(seq) - 1))
             x == seq[Len(seq)]
         IN IF InSeq(x, front) THEN front ELSE Append(front, x)

\* C30: FIFO frontier. In Crawler.start and in WebCrawler.start every step
\* either removes URLs at the head of the frontier or appends URLs at its
\* tail; a dispatch step removes a head segment and dispatches its URLs that
\* are not yet visited in the order they had in the frontier, and a fetch
\* step appends only. A URL appended before another therefore stands before
\* it in the frontier and is dequeued and dispatched before it.
FifoFrontier ==
    [][/\ IsSuffix(Frontier', Frontier) \/ IsPrefix(Frontier, Frontier')
       /\ last'.op = "dispatch" =>
            LET removed == SubSeq(Frontier, 1, Len(Frontier) - Len(Frontier'))
            IN /\ IsSuffix(Frontier', Frontier)
               /\ last'.ret.created =
                    FirstOccurrences(SelectSeq(removed, LAMBDA u : u \notin visited))
               /\ \A i \in 1..Len(removed) :
                    InSeq(removed[i], last'.ret.created) \/
                    InSeq(removed[i], last'.ret.discarded)
       /\ last'.op = "fetch" =>
            /\ IsPrefix(Frontier, Frontier')
            /\ Frontier' = Frontier \o last'.ret.append]_vars

\* C30 witness: two URLs found on one page have been dispatched in one
\* dispatch step, in the order in which they were appended
DispatchedInOrder ==
    /\ last.op = "dispatch"
    /\ Len(last.ret.created) = 2
    /\ UrlLess(last.ret.created[1], last.ret.created[2])
    /\ Frontier = <<>>

\* the same-domain links of a page that are not visited, in the order of the
\* first anchor that gives each
DocumentOrder(base, html, vis) ==
    LET anchors == SelectSeq(html, LAMBDA a : a # NoHref)
        resolved == [i \in 1..Len(anchors) |->
                       normalize_url(get_absolute_url(base, anchors[i]))]
    IN FirstOccurrences(SelectSeq(resolved,
           LAMBDA l : is_same_domain(base_url, l) /\ l \notin vis))

\* C31 as stated: the links of a page with two or more distinct unvisited
\* links are appended to the frontier in document order of their first
\* occurrence.
AppendedInDocumentOrder ==
    (last.op = "parse_links" /\ ~last.ret.raised /\
       Len(DocumentOrder(last.url, last.arg, visited)) >= 2) =>
        last.ret.append = DocumentOrder(last.url, last.arg, visited)

\* C31, amended: the links appended to the frontier from one page are
\* unvisited same-domain links of that page, each appended once, in ascending
\* order of their URL strings (`for link in sorted(links)`), whatever their
\* order on the page.
AppendedInSortedOrder ==
    last.op = "parse_links" =>
        LET app == last.ret.append
        IN /\ \A i \in 1..Len(app) :
                InSeq(app[i], DocumentOrder(last.url, last.arg, visited))
           /\ \A i \in 1..Len(app) - 1 : UrlLess(app[i], app[i + 1])

\* C31 witness: two links appended in an order that is not their order on
\* the page
AppendedAgainstDocumentOrder ==
    /\ last.op = "parse_links"
    /\ ~last.ret.raised
    /\ Len(last.ret.append) = 2
    /\ last.ret.append # DocumentOrder(last.url, last.arg, visited)

\* C32: the visited set only grows and only a dispatch step changes it. No
\* step removes a URL from it; a fetch_and_process step, whatever its
\* outcome, leaves it unchanged; the URLs a step adds are the URLs that step
\* dequeued from the head of the frontier and created tasks for, so a task
\* exists only for a URL that is in the visited set.
VisitedGrowsAtDispatch ==
    [][/\ visited \subseteq visited'
       /\ visited' # visited =>
            LET removed == SubSeq(Frontier, 1, Len(Frontier) - Len(Frontier'))
            IN /\ last'.op = "dispatch"
               /\ IsSuffix(Frontier', Frontier)
               /\ \A u \in visited' \ visited :
                    InSeq(u, removed) /\ InSeq(u, last'.ret.created)
       /\ last'.op = "dispatch" =>
            \A i \in 1..Len(last'.ret.created) :
                /\ last'.ret.created[i] \in visited' \ visited
                /\ InSeq(last'.ret.created[i], tasks')
       /\ last'.op \in {"fetch", "acquire"} => visited' = visited
       /\ \A i \in 1..Len(tasks') : tasks'[i] \in visited']_vars

\* C32 witness: a fetch has ended in an error with the visited set holding
\* the seed and a link dispatched after it
VisitedKeptOnError ==
    /\ last.op = "fetch"
    /\ last.arg.exc
    /\ base_url \in visited
    /\ Cardinality(visited) >= 2
    /\ last.url \in visited

\* C33: a URL that is in the visited set when a page is expanded is not
\* appended to the frontier. In Crawler and in WebCrawler the URLs a
\* fetch_and_process step appends are the links found on the page that are
\* not in the visited set at that step, so a copy of a visited URL in the
\* frontier was appended before the URL was marked visited.
VisitedNotAppended ==
    [][last'.op = "fetch" =>
         /\ \A i \in 1..Len(last'.ret.append) :
              /\ last'.ret.append[i] \notin visited
              /\ last'.ret.append[i] \in last'.ret.found
         /\ \A u \in last'.ret.found \ visited : InSeq(u, last'.ret.append)
         /\ Frontier' = Frontier \o last'.ret.append]_vars

\* C33 witness: a page links to a visited URL and to an unvisited one; the
\* unvisited one alone is appended
VisitedLinkDropped ==
    /\ last.op = "fetch"
    /\ \E u \in last.ret.found : u \in visited /\ ~InSeq(u, last.ret.append)
    /\ last.ret.append # <<>>

\* C34: slot release on every outcome. In Crawler and in WebCrawler, once
\* the semaphore exists the slots held and the slots free add up to
\* max_concurrent in every state; every fetch_and_process step, whether the
\* page is crawled, skipped or counted as an error, gives back the one slot
\* its coroutine holds; and when the crawl has ended no slot is held.
SlotsConserved ==
    /\ [](pc \notin {"new", "rejected"} =>
            semaphore + Cardinality(Holders) = max_concurrent)
    /\ [](pc \in {"finally", "done", "raised"} =>
            Holders = {} /\ semaphore = max_concurrent)
    /\ [][last'.op = "fetch" =>
            /\ tstate[last'.url] = "fetching"
            /\ tstate'[last'.url] \in {"returned", "raised"}
            /\ semaphore' = semaphore + 1
            /\ Holders' = Holders \ {last'.url}]_vars

\* C34 witness: the crawl has ended after a page crawled, a page skipped and
\* an error, with every slot free
SlotsFreeAtEnd ==
    /\ pc = "done"
    /\ max_concurrent = MaxConcurrent
    /\ semaphore = max_concurrent
    /\ pages_crawled >= 1
    /\ error_count >= 1
    /\ Cardinality(visited) > pages_crawled + error_count

\* C35 as stated: a fetch operation of WebCrawler that completes after a stop
\* request has set the session's status appends no URL to the frontier.
StoppedResultsDiscarded ==
    [][(kind = "WebCrawler" /\ crawl_sessions.status = "stopped" /\
          last'.op = "fetch") => queue' = queue]_vars

\* the accessibility probe of the crawl has not returned accessible
BeforeProbeAccepted ==
    \/ pc \in {"new", "rejected", "probe", "raised"}
    \/ kind = "WebCrawler" /\ status = "invalid"

\* C36: probe ordering. A crawl runs the accessibility probe in one step, at
\* the head of start(), and never again; until that probe has returned
\* accessible no fetch_and_process was dispatched, the visited set is empty
\* and neither the crawler's status nor the session's is 'running'; the loop
\* is entered only from the probe, and only when the HEAD request ended in a
\* way the probe reports as accessible.
ProbeFirst ==
    /\ [](BeforeProbeAccepted =>
            /\ visited = {}
            /\ tasks = <<>>
            /\ \A u \in CanonicalUrls : dispatched[u] = 0 /\ tstate[u] = "none"
            /\ status # "running"
            /\ crawl_sessions.status # "running")
    /\ [][/\ last'.op = "probe" => (pc = "probe" /\ pc' # "probe")
          /\ pc' = "probe" => pc \in {"new", "probe"}
          /\ (pc' \in {"loop", "webloop"} /\ pc \notin {"loop", "webloop", "wait", "gather"}) =>
               /\ pc = "probe"
               /\ last'.op = "probe"
               /\ ~ProbeRejects(last'.arg)]_vars

\* C36 witness: the first dispatch of a crawl, the probe behind it
FirstDispatchAfterProbe ==
    /\ last.op = "dispatch"
    /\ visited = {base_url}
    /\ last.ret.created = <<base_url>>
    /\ pages_crawled = 0
    /\ error_count = 0

\* C37 as stated: when WebCrawler.start has set the status 'completed',
\* the fetch_and_process operation of every URL in the visited set has been
\* awaited to its end, and no created operation is left in the batch.
WebBatchAwaited ==
    (kind = "WebCrawler" /\ status = "completed") =>
        /\ \A u \in visited : Finished(u)
        /\ tasks = <<>>

\* C38 as stated: each dispatched URL adds to at most one of pages_crawled
\* and error_count, so pages_crawled + error_count never exceeds the number
\* of URLs in the visited set, link extraction failing after the page was
\* counted included.
ExclusiveAccounting == pages_crawled + error_count <= Cardinality(visited)

====
